---------------------------- MODULE Spec2Model ----------------------------
(***************************************************************************)
(* autopdf: title and heading-outline inference from positioned,           *)
(* font-annotated text fragments.                                          *)
(*                                                                         *)
(* Two extractors are modelled, each from its source file:                 *)
(*   EnhancedPDFOutlineExtractor   (src/Enhanced_pdf_extractor.py)         *)
(*   p_FinalPDFOutlineExtractor    (src/p_final_pdf_extractor.py)          *)
(* together with their batch drivers.                                      *)
(*                                                                         *)
(* Texts are TLA+ strings; every Python string operation and every         *)
(* regular expression of the source is an operator that inspects the       *)
(* characters.  Numbers that Python keeps as floats are kept exact by      *)
(* scaling: a mean is the pair (sum, n), a confidence is counted in        *)
(* half points, a visual title score in quarter points.                    *)
(***************************************************************************)
EXTENDS Integers, Sequences, FiniteSets, TLC

(***************************************************************************)
(* Characters                                                              *)
(***************************************************************************)
\* code points 32..95 and 97..126 (the grave accent, 96, is not used)
PrintableLo ==
    " !\"#$%&'()*+,-./0123456789:;<=>?@ABCDEFGHIJKLMNOPQRSTUVWXYZ[\\]^_"

PrintableHi == "abcdefghijklmnopqrstuvwxyz{|}~"

Char(s, i) == SubSeq(s, i, i)

CharSet ==
    {Char(PrintableLo, i) : i \in 1..Len(PrintableLo)}
        \cup {Char(PrintableHi, i) : i \in 1..Len(PrintableHi)}
        \cup {"\n", "\t"}

\* ord(c): the code point of a character
OrdOf ==
    [c \in CharSet |->
        IF c = "\n" THEN 10
        ELSE IF c = "\t" THEN 9
        ELSE IF \E i \in 1..Len(PrintableLo) : Char(PrintableLo, i) = c
             THEN 31 + (CHOOSE i \in 1..Len(PrintableLo) : Char(PrintableLo, i) = c)
             ELSE 96 + (CHOOSE i \in 1..Len(PrintableHi) : Char(PrintableHi, i) = c)]

Ord(c) == OrdOf[c]

IsDigit(c) == Ord(c) \in 48..57
IsUpper(c) == Ord(c) \in 65..90
IsLower(c) == Ord(c) \in 97..122
IsAlpha(c) == IsUpper(c) \/ IsLower(c)
\* \s of the re module (and str.strip's default) on the characters in use
IsSpace(c) == c \in {" ", "\n", "\t"}

LowerChar(c) == IF IsUpper(c) THEN Char(PrintableHi, Ord(c) - 64) ELSE c

(***************************************************************************)
(* Python string operations                                                *)
(***************************************************************************)
RECURSIVE lower(_)
lower(s) == IF s = "" THEN "" ELSE LowerChar(Char(s, 1)) \o lower(Tail(s))

RECURSIVE lstrip(_)
lstrip(s) == IF s # "" /\ IsSpace(Char(s, 1)) THEN lstrip(Tail(s)) ELSE s

RECURSIVE rstrip(_)
rstrip(s) ==
    IF s # "" /\ IsSpace(Char(s, Len(s))) THEN rstrip(SubSeq(s, 1, Len(s) - 1)) ELSE s

strip(s) == rstrip(lstrip(s))

\* sub in s
Contains(s, sub) ==
    \E i \in 1..(Len(s) - Len(sub) + 1) : SubSeq(s, i, i + Len(sub) - 1) = sub

startswith(s, p) == Len(p) <= Len(s) /\ SubSeq(s, 1, Len(p)) = p

endswith(s, p) == Len(p) <= Len(s) /\ SubSeq(s, Len(s) - Len(p) + 1, Len(s)) = p

\* s[n:]
Drop(s, n) == IF n >= Len(s) THEN "" ELSE SubSeq(s, n + 1, Len(s))

\* s[:n]
Take(s, n) == IF n >= Len(s) THEN s ELSE SubSeq(s, 1, n)

\* str.isupper(): some cased character, and no lowercase one
isupper(s) ==
    /\ \E i \in 1..Len(s) : IsUpper(Char(s, i))
    /\ \A i \in 1..Len(s) : ~IsLower(Char(s, i))

\* s.count(c) for a single character c
count(s, c) == Cardinality({i \in 1..Len(s) : Char(s, i) = c})

\* len(s.split()): the number of maximal runs of non-whitespace
split_len(s) ==
    Cardinality({i \in 1..Len(s) :
        /\ ~IsSpace(Char(s, i))
        /\ (i = 1 \/ IsSpace(Char(s, i - 1)))})

\* re.sub(r'\s+', ' ', s): every whitespace run becomes one space
RECURSIVE collapse_ws(_)
collapse_ws(s) ==
    IF s = "" THEN ""
    ELSE IF IsSpace(Char(s, 1))
         THEN " " \o collapse_ws(lstrip(s))
         ELSE Char(s, 1) \o collapse_ws(Tail(s))

\* the number of leading characters of s that satisfy the class
RECURSIVE LeadDigits(_)
LeadDigits(s) == IF s # "" /\ IsDigit(Char(s, 1)) THEN 1 + LeadDigits(Tail(s)) ELSE 0

RECURSIVE LeadSpaces(_)
LeadSpaces(s) == IF s # "" /\ IsSpace(Char(s, 1)) THEN 1 + LeadSpaces(Tail(s)) ELSE 0

\* s < t in Python's string order (code points, a proper prefix first)
RECURSIVE StrLess(_, _)
StrLess(s, t) ==
    IF t = "" THEN FALSE
    ELSE IF s = "" THEN TRUE
    ELSE IF Char(s, 1) = Char(t, 1) THEN StrLess(Tail(s), Tail(t))
    ELSE Ord(Char(s, 1)) < Ord(Char(t, 1))

\* list.sort(key=...): Python's sort is stable, so elements that compare
\* equal keep their original order.  Less is the strict order of the keys.
SortBy(s, Less(_, _)) ==
    LET \* e goes behind every element of the sorted t that is not greater
        Insert(e, t) ==
            LET p == Cardinality({j \in 1..Len(t) : ~Less(e, t[j])})
            IN SubSeq(t, 1, p) \o <<e>> \o SubSeq(t, p + 1, Len(t))
        sorted[k \in 0..Len(s)] ==
            IF k = 0 THEN <<>> ELSE Insert(s[k], sorted[k - 1])
    IN sorted[Len(s)]

\* the set of the elements of a sequence
Range(s) == {s[i] : i \in 1..Len(s)}

RECURSIVE SumSeq(_)
SumSeq(s) == IF s = <<>> THEN 0 ELSE Head(s) + SumSeq(Tail(s))

\* ' '.join(parts)
RECURSIVE join(_)
join(parts) ==
    IF parts = <<>> THEN ""
    ELSE IF Len(parts) = 1 THEN parts[1]
    ELSE parts[1] \o " " \o join(Tail(parts))

(***************************************************************************)
(* EnhancedPDFOutlineExtractor: patterns and word lists (__init__), and    *)
(* the tests the extractor makes on a text                                 *)
(***************************************************************************)
\* [A-Z][a-z].*?[a-z]\s*$ under re.IGNORECASE: two letters, then any
\* characters but a newline, then a letter, then only whitespace.  The texts
\* reaching a pattern are stripped, so $ is the end of the text.
definite_phrase(d) ==
    LET r == rstrip(Drop(d, 2))
    IN /\ Len(d) >= 3
       /\ IsAlpha(Char(d, 1))
       /\ IsAlpha(Char(d, 2))
       /\ r # ""
       /\ IsAlpha(Char(r, Len(r)))
       /\ ~Contains(SubSeq(r, 1, Len(r) - 1), "\n")

\* heading_patterns['h1_definite']: ^\s*(\d+)\.\s+([A-Z][a-z].*?[a-z])\s*$
h1_definite(t) ==
    LET a == lstrip(t)
        nd == LeadDigits(a)
        b == Drop(a, nd)
        c == Drop(b, 1)
        ns == LeadSpaces(c)
    IN /\ nd >= 1
       /\ startswith(b, ".")
       /\ ns >= 1
       /\ definite_phrase(Drop(c, ns))

\* heading_patterns['h2_definite']: ^\s*(\d+)\.(\d+)\s+([A-Z][a-z].*?[a-z])\s*$
h2_definite(t) ==
    LET a == lstrip(t)
        nd == LeadDigits(a)
        b == Drop(a, nd)
        c == Drop(b, 1)
        nd2 == LeadDigits(c)
        d == Drop(c, nd2)
        ns == LeadSpaces(d)
    IN /\ nd >= 1
       /\ startswith(b, ".")
       /\ nd2 >= 1
       /\ ns >= 1
       /\ definite_phrase(Drop(d, ns))

special_sections ==
    {"table of contents", "references", "bibliography", "acknowledgement",
     "acknowledgements", "abstract", "summary", "introduction", "conclusion"}

\* heading_patterns['h1_special']: one of the section names, or
\* "Appendix <letter>", standing alone, under re.IGNORECASE
h1_special(t) ==
    LET s == lower(strip(t))
    IN \/ s \in special_sections
       \/ /\ Len(s) = 10
          /\ startswith(s, "appendix ")
          /\ IsLower(Char(s, 10))

document_type_indicators ==
    [form |-> <<"application", "form", "for:", "date:", "name:", "address:",
                "rsvp:", "signature">>,
     invitation |-> <<"invited", "party", "celebration", "event", "rsvp",
                      "please join">>,
     flyer |-> <<"sale", "discount", "special offer", "limited time", "call now">>,
     certificate |-> <<"certificate", "certifies", "completion", "achievement">>]

AllIndicators ==
    UNION {Range(document_type_indicators[d]) : d \in DOMAIN document_type_indicators}

\* the place of the space in an indicator (0: none; no indicator has two)
space_at(k) ==
    IF Contains(k, " ") THEN CHOOSE j \in 1..Len(k) : Char(k, j) = " " ELSE 0

\* the text ends with the indicator's first word
indicator_head(k, text) ==
    space_at(k) > 0 /\ endswith(text, SubSeq(k, 1, space_at(k) - 1))

\* the text starts with the indicator's second word
indicator_tail(k, text) ==
    space_at(k) > 0 /\ startswith(text, SubSeq(k, space_at(k) + 1, Len(k)))

\* The copyright sign of the source's lists lies outside the character set
\* of the modelled texts; no modelled text contains it.
never_headings ==
    <<"www.", "http", ".com", ".org", "email", "@", "copyright", "page",
      "version", "date:", "rsvp:", "address:", "phone:", "contact:", "___",
      "---", "...", "signature", "print name">>

\* any(indicator in text for indicator in words)
any_in(words, text) == \E i \in 1..Len(words) : Contains(text, words[i])

starts_with_any(text, prefixes) ==
    \E i \in 1..Len(prefixes) : startswith(text, prefixes[i])

\* any(indicator in text.lower() for indicator in self.never_headings)
never_heading(text) == any_in(never_headings, lower(text))

\* '___' in text or '---' in text or '...' in text
placeholder_run(text) ==
    Contains(text, "___") \/ Contains(text, "---") \/ Contains(text, "...")

\* text.lower().startswith(('page', 'copyright', <copyright sign>))
title_prefix(text) == starts_with_any(lower(text), <<"page", "copyright">>)

\* not any(char in text for char in '.,!?')
no_punctuation(text) ==
    ~(\E i \in 1..Len(text) : Char(text, i) \in {".", ",", "!", "?"})

nav_indicators ==
    <<"page ", "copyright", "www.", "http", "@", ".com", ".org", "version",
      "date:", "revised", "rsvp:", "phone:", "address:", "email:">>

_is_navigation_text(text) == any_in(nav_indicators, lower(text))

(***************************************************************************)
(* p_FinalPDFOutlineExtractor: the tests the extractor makes on a text     *)
(***************************************************************************)
\* ^\d+$
all_digits(t) == t # "" /\ \A i \in 1..Len(t) : IsDigit(Char(t, i))

\* ^\d+\s*$
digits_then_space(t) == all_digits(rstrip(t))

\* ^RFP: To Develop.*March 2003.*\d+$ under re.IGNORECASE
rfp_header(t) ==
    LET s == lower(t)
    IN /\ startswith(s, "rfp: to develop")
       /\ \E i \in 16..(Len(s) - 10) : SubSeq(s, i, i + 9) = "march 2003"
       /\ IsDigit(Char(s, Len(s)))
       /\ ~Contains(s, "\n")

\* ^March \d+, \d+$ under re.IGNORECASE
bare_date(t) ==
    LET s == lower(t)
        a == Drop(s, 6)
        nd == LeadDigits(a)
        b == Drop(a, nd)
    IN /\ startswith(s, "march ")
       /\ nd >= 1
       /\ startswith(b, ", ")
       /\ all_digits(Drop(b, 2))

\* is_header_footer, the words looked for near the top or bottom of a page
header_footer_words(text) ==
    /\ Len(text) < 80
    /\ \/ Contains(text, "RFP:")
       \/ Contains(text, "March 2003")
       \/ all_digits(strip(text))
       \/ Contains(text, "Business Plan")

\* is_header_footer, header_footer_patterns
header_footer_patterns(text) ==
    rfp_header(text) \/ digits_then_space(text) \/ bare_date(text)

\* ^[0-9\s\-]+$
digits_spaces_dashes(t) ==
    /\ t # ""
    /\ \A i \in 1..Len(t) : IsDigit(Char(t, i)) \/ IsSpace(Char(t, i)) \/ Char(t, i) = "-"

\* detect_title_advanced, "skip obvious non-titles"
title_skip(text) ==
    \/ starts_with_any(lower(text), <<"page ", "chapter ", "section ">>)
    \/ digits_then_space(text)
    \/ Contains(text, "March 2003")

body_exceptions == <<"e-", "i.e.", "etc.">>

body_starters == <<"The ", "This ", "It ", "We ", "Our ", "In order", "For the">>

is_obviously_body_text(text) ==
    \/ count(text, ".") >= 2 /\ ~endswith(text, ".")
    \/ /\ text # ""
       /\ IsLower(Char(text, 1))
       /\ ~starts_with_any(text, body_exceptions)
    \/ Len(text) > 150 /\ Contains(text, " ")
    \/ starts_with_any(text, body_starters)

\* a word of words, then whitespace, then a character of the class
word_space_class(text, words, InClass(_)) ==
    \E i \in 1..Len(words) :
        LET rest == Drop(text, Len(words[i]))
            ns == LeadSpaces(rest)
        IN /\ startswith(text, words[i])
           /\ ns >= 1
           /\ Len(rest) > ns
           /\ InClass(Char(rest, ns + 1))

IsRoman(c) == c \in {"I", "V", "X"}

\* ^\d+\.\d*\s+[A-Z]
numbered_capital(text) ==
    LET nd == LeadDigits(text)
        b == Drop(text, nd)
        c == Drop(b, 1)
        d == Drop(c, LeadDigits(c))
        ns == LeadSpaces(d)
    IN /\ nd >= 1
       /\ startswith(b, ".")
       /\ ns >= 1
       /\ Len(d) > ns
       /\ IsUpper(Char(d, ns + 1))

\* ^[A-Z][a-z]+.*:$
capitalized_colon(text) ==
    /\ Len(text) >= 3
    /\ IsUpper(Char(text, 1))
    /\ IsLower(Char(text, 2))
    /\ endswith(text, ":")
    /\ ~Contains(text, "\n")

\* ^Appendix\s+[A-Z]:
appendix_letter(text) ==
    LET rest == Drop(text, 8)
        ns == LeadSpaces(rest)
    IN /\ startswith(text, "Appendix")
       /\ ns >= 1
       /\ Len(rest) >= ns + 2
       /\ IsUpper(Char(rest, ns + 1))
       /\ Char(rest, ns + 2) = ":"

\* ^[A-Z][A-Z\s]+$
all_caps_line(text) ==
    /\ Len(text) >= 2
    /\ IsUpper(Char(text, 1))
    /\ \A i \in 2..Len(text) : IsUpper(Char(text, i)) \/ IsSpace(Char(text, i))

\* ^Phase\s+[IVX]+
phase_roman(text) == word_space_class(text, <<"Phase">>, IsRoman)

section_names ==
    {"Summary", "Background", "Introduction", "Conclusion", "Overview", "Abstract"}

matches_heading_pattern(text) ==
    \/ word_space_class(text, <<"Chapter", "Section", "Part", "Appendix">>,
                        LAMBDA c : IsRoman(c) \/ IsDigit(c))
    \/ numbered_capital(text)
    \/ capitalized_colon(text)
    \/ text \in section_names
    \/ phase_roman(text)
    \/ appendix_letter(text)
    \/ all_caps_line(text)
    \/ word_space_class(text, <<"What", "How", "Why", "Where", "When">>, IsLower)

\* ^\d+\.\d+\s+
sub_subsection(text) ==
    LET nd == LeadDigits(text)
        b == Drop(text, nd)
        c == Drop(b, 1)
        nd2 == LeadDigits(c)
    IN /\ nd >= 1
       /\ startswith(b, ".")
       /\ nd2 >= 1
       /\ LeadSpaces(Drop(c, nd2)) >= 1

\* text.startswith("For each") and text.endswith(":")
for_each_colon(text) == startswith(text, "For each") /\ endswith(text, ":")

\* re.sub(r'\s+', ' ', heading['text'].lower().strip())
normalize(text) == collapse_ws(strip(lower(text)))

(***************************************************************************)
(* The texts of the modelled documents, and every test above evaluated     *)
(* once per text: OfText[t].f is f(t).                                     *)
(***************************************************************************)
BodyText == "plain body text"

Vocabularies ==
    {{"1. Introduction", "2.1 Methods", "Introduction", "INTRODUCTION"},
     {"1. Celebration Party", "Signature Application Form", "1. Sale Discount",
      "Project  Plan"},
     {"Summary", "Annual Report of the Committee on Document Structure"}}

\* The texts of the sample documents: a numbered section whose phrase holds
\* a word of never_headings, the lines of an invitation, lines in capitals
\* or ending in a colon, an appendix heading and its first word, lines of
\* type keywords, a contact label.
SampleTexts ==
    {"1. Version History",
     "You're invited!", "RSVP: 555-1234", "Date: June 1", "Bring a friend!",
     "Snacks provided",
     "NOTES:", "2024 results:", "Quarterly results",
     "Appendix A: Data", "Appendix",
     "Invited Party Celebration Event", "Sale Discount Today",
     "Contact:"}

MaxSections == 52

\* the heading of the k-th section of a long report
SectionText(k) == ToString(k) \o ". Section"

SectionTexts == {SectionText(k) : k \in 1..MaxSections}

AllTexts ==
    LET read == UNION Vocabularies \cup {BodyText} \cup SampleTexts \cup SectionTexts
    IN read \cup {collapse_ws(strip(t)) : t \in read}

OfText ==
    [t \in AllTexts |->
        [lower |-> lower(t),
         indicators |-> {k \in AllIndicators : Contains(lower(t), k)},
         indicator_heads |-> {k \in AllIndicators : indicator_head(k, lower(t))},
         indicator_tails |-> {k \in AllIndicators : indicator_tail(k, lower(t))},
         isupper |-> isupper(t),
         h1_definite |-> h1_definite(t),
         h2_definite |-> h2_definite(t),
         h1_special |-> h1_special(t),
         never_heading |-> never_heading(t),
         placeholder_run |-> placeholder_run(t),
         title_prefix |-> title_prefix(t),
         no_punctuation |-> no_punctuation(t),
         navigation |-> _is_navigation_text(t),
         header_footer_words |-> header_footer_words(t),
         header_footer_patterns |-> header_footer_patterns(t),
         digits_spaces_dashes |-> digits_spaces_dashes(t),
         collapse_ws |-> collapse_ws(t),
         title_skip |-> title_skip(t),
         split_len |-> split_len(t),
         spaces |-> count(t, " "),
         is_obviously_body_text |-> is_obviously_body_text(t),
         matches_heading_pattern |-> matches_heading_pattern(t),
         ends_colon |-> endswith(t, ":"),
         appendix_letter |-> appendix_letter(t),
         sub_subsection |-> sub_subsection(t),
         phase_roman |-> phase_roman(t),
         for_each_colon |-> for_each_colon(t),
         normalize |-> normalize(t)]]

\* The text tests as the running program holds them: the compiled patterns
\* and word lists (self.heading_patterns, self.document_type_indicators,
\* self.never_headings, and the literals of p_final's methods) applied to
\* the texts of the document.  Set at construction, never assigned again.
VARIABLE tests

\* the tests over the texts a document can hold, and over their cleaned forms
TestsFor(texts) ==
    [t \in texts \cup {collapse_ws(strip(u)) : u \in texts} |-> OfText[t]]

(***************************************************************************)
(* EnhancedPDFOutlineExtractor.detect_document_type                        *)
(* A fragment (block) is [text, page, x, y, size, is_bold]; size and       *)
(* is_bold are its font_info, x and y its position.                        *)
(***************************************************************************)
SparseMaxBlocks == 20
SparseMaxAvgLen == 50
ComplexMinBlocks == 100

\* indicator in all_text, where all_text is ' '.join of the lowered texts.
\* The joint between two texts is a space, so an indicator found in all_text
\* lies within one text or, when it has a space, ends one text with its
\* first word and starts the next with its second.
in_all_text(indicator, blocks) ==
    \/ \E i \in 1..Len(blocks) : indicator \in tests[blocks[i].text].indicators
    \/ \E i \in 1..(Len(blocks) - 1) :
           /\ indicator \in tests[blocks[i].text].indicator_heads
           /\ indicator \in tests[blocks[i + 1].text].indicator_tails

\* type_scores[doc_type]: sum(1 for indicator in indicators if indicator in all_text)
type_score(doc_type, blocks) ==
    LET indicators == document_type_indicators[doc_type]
    IN Cardinality({i \in 1..Len(indicators) : in_all_text(indicators[i], blocks)})

detect_document_type(blocks) ==
    LET total_blocks == Len(blocks)
        total_len == SumSeq([i \in 1..Len(blocks) |-> Len(blocks[i].text)])
        denom == IF total_blocks > 1 THEN total_blocks ELSE 1
    IN \* avg_text_length < 50, with avg_text_length = total_len / denom
       IF total_blocks < SparseMaxBlocks /\ total_len < SparseMaxAvgLen * denom
       THEN IF type_score("form", blocks) > 2 THEN "form"
            ELSE IF type_score("invitation", blocks) > 1 THEN "invitation"
            ELSE IF type_score("flyer", blocks) > 1 THEN "flyer"
            ELSE "simple"
       ELSE IF total_blocks > ComplexMinBlocks THEN "complex_document"
       ELSE "standard_document"

(***************************************************************************)
(* EnhancedPDFOutlineExtractor: title                                      *)
(***************************************************************************)
first_page(blocks) == SelectSeq(blocks, LAMBDA b : b.page = 1)

\* seq[:n]
Prefix(seq, n) == IF n >= Len(seq) THEN seq ELSE SubSeq(seq, 1, n)

\* the score of one block, in quarter points (font_size / 4 is font_size)
visual_score(block) ==
    LET text == strip(block.text)
    IN (IF block.size > 14 THEN block.size ELSE 0)
       + (IF block.is_bold THEN 40 ELSE 0)
       + (IF Len(text) > 5 /\ Len(text) < 80 THEN 20 ELSE 0)
       + (IF tests[text].isupper THEN 32 ELSE 0)
       + (IF tests[text].no_punctuation THEN 12 ELSE 0)
       + (IF block.y < 200 THEN 20 ELSE 0)

\* the skip test without the denylist
visual_skip_short(block) ==
    LET text == strip(block.text)
    IN \/ Len(text) < 3
       \/ tests[text].title_prefix

visual_skip(block) ==
    LET text == strip(block.text)
    IN \/ Len(text) < 3
       \/ tests[text].never_heading
       \/ tests[text].title_prefix

\* the scoring loop: best_candidate is None ("" here, equally falsy) until a
\* block scores above best_score, which starts at 0
RECURSIVE visual_scan(_, _, _)
visual_scan(cands, best_score, best_candidate) ==
    IF cands = <<>> THEN best_candidate
    ELSE LET block == Head(cands)
         IN IF ~visual_skip(block) /\ visual_score(block) > best_score
            THEN visual_scan(Tail(cands), visual_score(block), strip(block.text))
            ELSE visual_scan(Tail(cands), best_score, best_candidate)

RECURSIVE visual_fallback(_)
visual_fallback(cands) ==
    IF cands = <<>> THEN "Document Title"
    ELSE LET text == strip(Head(cands).text)
         IN IF Len(text) > 3 /\ ~tests[text].never_heading
            THEN text
            ELSE visual_fallback(Tail(cands))

_extract_title_from_visual_document(blocks) ==
    LET first_page_blocks == Prefix(first_page(blocks), 10)
        best_candidate == visual_scan(first_page_blocks, 0, "")
    IN IF best_candidate # "" THEN best_candidate
       ELSE visual_fallback(first_page_blocks)

RECURSIVE structured_scan(_)
structured_scan(cands) ==
    IF cands = <<>> THEN "Document Title"
    ELSE LET text == strip(Head(cands).text)
         IN IF /\ Len(text) > 10
               /\ Len(text) < 150
               /\ ~tests[text].navigation
               /\ ~tests[text].title_prefix
            THEN text
            ELSE structured_scan(Tail(cands))

_extract_title_from_structured_document(blocks) ==
    structured_scan(Prefix(first_page(blocks), 5))

RECURSIVE simple_scan(_)
simple_scan(cands) ==
    IF cands = <<>> THEN "Document Title"
    ELSE LET text == strip(Head(cands).text)
         IN IF Len(text) > 5 /\ Len(text) < 100 THEN text
            ELSE simple_scan(Tail(cands))

_extract_title_from_simple_document(blocks) == simple_scan(Prefix(blocks, 5))

extract_title_enhanced(blocks, doc_type) ==
    IF blocks = <<>> THEN "Document Title"
    ELSE IF doc_type \in {"invitation", "flyer", "form"}
         THEN _extract_title_from_visual_document(blocks)
    ELSE IF doc_type \in {"complex_document", "standard_document"}
         THEN _extract_title_from_structured_document(blocks)
    ELSE _extract_title_from_simple_document(blocks)

(***************************************************************************)
(* EnhancedPDFOutlineExtractor: heading gate and scorer                    *)
(***************************************************************************)
MinBlocksForHeadings == 15

has_numbered_sections(blocks) ==
    \E i \in 1..Len(blocks) :
        \/ tests[blocks[i].text].h1_definite
        \/ tests[blocks[i].text].h2_definite

has_special_sections(blocks) ==
    \E i \in 1..Len(blocks) : tests[blocks[i].text].h1_special

\* should_extract_headings without the test of the document type
should_extract_headings_any_type(doc_type, blocks) ==
    IF Len(blocks) < MinBlocksForHeadings THEN FALSE
    ELSE has_numbered_sections(blocks) \/ has_special_sections(blocks)

should_extract_headings(doc_type, blocks) ==
    IF doc_type \in {"form", "invitation", "flyer", "certificate"} THEN FALSE
    ELSE IF Len(blocks) < MinBlocksForHeadings THEN FALSE
    ELSE has_numbered_sections(blocks) \/ has_special_sections(blocks)

\* returns <<level, confidence>>, the confidence in hundredths
calculate_ultra_conservative_heading_score(block, doc_type) ==
    LET text == strip(block.text)
        scoreH1 == IF tests[text].h1_definite THEN 100
                   ELSE IF tests[text].h2_definite THEN 0
                   ELSE IF tests[text].h1_special THEN 90
                   ELSE 0
        scoreH2 == IF tests[text].h1_definite THEN 0
                   ELSE IF tests[text].h2_definite THEN 100
                   ELSE 0
        cap(v) == IF v < 100 THEN v ELSE 100
    IN IF \/ Len(text) < 4
          \/ Len(text) > 100
          \/ tests[text].never_heading
          \/ tests[text].placeholder_run
       THEN <<"CONTENT", 0>>
       ELSE IF scoreH1 >= 80 THEN <<"H1", cap(scoreH1)>>
       ELSE IF scoreH2 >= 80 THEN <<"H2", cap(scoreH2)>>
       ELSE <<"CONTENT", 0>>

(***************************************************************************)
(* EnhancedPDFOutlineExtractor.extract_outline, on the blocks that         *)
(* extract_text_blocks returned.  An entry of potential_headings carries,  *)
(* beside the source's fields, src: the index of its block (a ghost field, *)
(* dropped from the outline and kept beside it as the result's src).       *)
(***************************************************************************)
\* the test with a confidence above 1.0, which no score reaches
enhanced_admit_above_one(sc) == sc[1] # "CONTENT" /\ sc[2] > 100

\* level != 'CONTENT' and confidence >= 0.8
enhanced_admit(sc) == sc[1] # "CONTENT" /\ sc[2] >= 80

RECURSIVE enhanced_potential_headings(_, _, _)
enhanced_potential_headings(blocks, doc_type, i) ==
    IF i > Len(blocks) THEN <<>>
    ELSE LET block == blocks[i]
             sc == calculate_ultra_conservative_heading_score(block, doc_type)
             rest == enhanced_potential_headings(blocks, doc_type, i + 1)
         IN IF enhanced_admit(sc)
            THEN <<[level |-> sc[1], text |-> strip(block.text),
                    page |-> block.page, confidence |-> sc[2], src |-> i]>> \o rest
            ELSE rest

\* key=lambda x: (x['page'], x['text'])
enhanced_sort_less(a, b) ==
    \/ a.page < b.page
    \/ a.page = b.page /\ StrLess(a.text, b.text)

\* if not any(h['text'] == heading['text'] for h in final_headings)
enhanced_is_new(heading, final_headings) ==
    ~(\E k \in 1..Len(final_headings) : final_headings[k].text = heading.text)

RECURSIVE enhanced_dedup(_, _)
enhanced_dedup(headings, final_headings) ==
    IF headings = <<>> THEN final_headings
    ELSE IF enhanced_is_new(Head(headings), final_headings)
         THEN enhanced_dedup(Tail(headings), Append(final_headings, Head(headings)))
         ELSE enhanced_dedup(Tail(headings), final_headings)

Enhanced_extract_outline(blocks) ==
    IF blocks = <<>>
    THEN [title |-> "Empty Document", outline |-> <<>>, src |-> <<>>]
    ELSE LET doc_type == detect_document_type(blocks)
             title == extract_title_enhanced(blocks, doc_type)
         IN IF ~should_extract_headings(doc_type, blocks)
            THEN [title |-> title, outline |-> <<>>, src |-> <<>>]
            ELSE LET potential_headings ==
                         SortBy(enhanced_potential_headings(blocks, doc_type, 1),
                                enhanced_sort_less)
                     final_headings == enhanced_dedup(potential_headings, <<>>)
                 IN [title |-> title,
                     outline |-> [k \in 1..Len(final_headings) |->
                                     [level |-> final_headings[k].level,
                                      text |-> final_headings[k].text,
                                      page |-> final_headings[k].page]],
                     src |-> [k \in 1..Len(final_headings) |->
                                 final_headings[k].src]]

(***************************************************************************)
(* p_FinalPDFOutlineExtractor: cleaning                                    *)
(* A fragment (item) has the same fields: [text, page, x, y, size,         *)
(* is_bold].                                                               *)
(***************************************************************************)
\* page_height = 800; item['y'] > page_height * 0.9 or item['y'] < 50
is_header_footer(text, item) ==
    \/ /\ item.y > 720 \/ item.y < 50
       /\ tests[text].header_footer_words
    \/ tests[text].header_footer_patterns

clean_keeps(item) ==
    LET text == strip(item.text)
    IN /\ ~(Len(text) < 2)
       /\ ~is_header_footer(text, item)
       /\ ~(tests[text].digits_spaces_dashes /\ Len(text) < 10)

\* what clean_and_filter_text leaves in the item it was handed: a kept item
\* is assigned its cleaned text (item['text'] = text), a skipped one is left
clean_item(item) ==
    IF clean_keeps(item)
    THEN [item EXCEPT !.text = tests[strip(item.text)].collapse_ws]
    ELSE item

\* returns cleaned_items; text_items_after is the caller's list once the
\* call has returned (the items are shared, not copied)
clean_and_filter_text(text_items) ==
    LET after_call == [i \in 1..Len(text_items) |-> clean_item(text_items[i])]
        kept == SelectSeq([i \in 1..Len(text_items) |->
                              [item |-> after_call[i],
                               keep |-> clean_keeps(text_items[i])]],
                          LAMBDA e : e.keep)
    IN [cleaned_items |-> [k \in 1..Len(kept) |-> kept[k].item],
        text_items_after |-> after_call]

(***************************************************************************)
(* p_FinalPDFOutlineExtractor.detect_title_advanced                        *)
(***************************************************************************)
title_candidate(item) ==
    LET text == strip(item.text)
    IN /\ ~(Len(text) < 5)
       /\ ~tests[text].title_skip
       /\ item.y < 300
       /\ Len(text) > 8
       /\ item.size >= 12

\* for candidate, _, _ in title_candidates[1:3]: the first with between 5 and
\* 15 words replaces the title
RECURSIVE coherent_title(_, _)
coherent_title(cands, title) ==
    IF cands = <<>> THEN title
    ELSE IF /\ 5 < tests[Head(cands).text].split_len
            /\ tests[Head(cands).text].split_len < 15
         THEN Head(cands).text
         ELSE coherent_title(Tail(cands), title)

title_candidates_of(text_items) ==
    LET first ==
            SortBy(first_page(text_items),
                   LAMBDA a, b : a.y < b.y \/ (a.y = b.y /\ a.x < b.x))
        found == SelectSeq(Prefix(first, 8), title_candidate)
        cands == [k \in 1..Len(found) |->
                     [text |-> strip(found[k].text), size |-> found[k].size,
                      y |-> found[k].y]]
    IN SortBy(cands,
              LAMBDA a, b : a.size > b.size \/ (a.size = b.size /\ a.y < b.y))

\* the title the sorted, non-empty candidate list gives
best_title(title_candidates) ==
    LET title == strip(tests[title_candidates[1].text].collapse_ws)
        better ==
            IF tests[title].split_len > 15 \/ tests[title].spaces > 20
            THEN coherent_title(
                     SubSeq(title_candidates, 2,
                            IF Len(title_candidates) < 3
                            THEN Len(title_candidates) ELSE 3),
                     title)
            ELSE title
    IN Take(better, 150)

\* detect_title_advanced with blank placeholders
detect_title_advanced_blank(text_items) ==
    IF text_items = <<>> THEN ""
    ELSE IF title_candidates_of(text_items) # <<>>
         THEN best_title(title_candidates_of(text_items))
         ELSE ""

detect_title_advanced(text_items) ==
    IF text_items = <<>> THEN "Untitled Document"
    ELSE IF title_candidates_of(text_items) # <<>>
         THEN best_title(title_candidates_of(text_items))
         ELSE "Document"

(***************************************************************************)
(* p_FinalPDFOutlineExtractor: size profile and thresholds                 *)
(* statistics.mean(sizes) is the fraction sum / n; a threshold is kept as  *)
(* its numerator over the same denominator n, so that size >= threshold    *)
(* reads size * n >= numerator.  (size_stats['median'] is never read.)     *)
(***************************************************************************)
\* sorted(set(sizes), reverse=True)
distinct_desc(sizes) ==
    LET S == Range(sizes)
        rank(v) == Cardinality({w \in S : w > v}) + 1
    IN [k \in 1..Cardinality(S) |-> CHOOSE v \in S : rank(v) = k]

pfinal_size_stats(text_items) ==
    LET sized == SelectSeq(text_items, LAMBDA item : item.size > 0)
        sizes == [i \in 1..Len(sized) |-> sized[i].size]
    IN [sum |-> SumSeq(sizes), n |-> Len(sizes), sizes |-> distinct_desc(sizes)]

\* the thresholds with h1 and h2 taken from the small end of the sizes
calculate_heading_thresholds_ascending(size_stats) ==
    LET sizes == size_stats.sizes
        n == size_stats.n
        mean_size == size_stats.sum
    IN IF Len(sizes) >= 2
       THEN [h1 |-> sizes[Len(sizes)] * n, h2 |-> sizes[Len(sizes) - 1] * n,
             h3 |-> mean_size + 1 * n, body |-> mean_size]
       ELSE [h1 |-> mean_size + 2 * n, h2 |-> mean_size + 4 * n,
             h3 |-> mean_size + 1 * n, body |-> mean_size]

calculate_heading_thresholds(size_stats) ==
    LET sizes == size_stats.sizes
        n == size_stats.n
        mean_size == size_stats.sum
    IN IF Len(sizes) >= 4
       THEN [h1 |-> sizes[1] * n, h2 |-> sizes[2] * n, h3 |-> sizes[3] * n,
             body |-> mean_size]
       ELSE IF Len(sizes) >= 2
       THEN [h1 |-> sizes[1] * n,
             h2 |-> IF Len(sizes) > 1 THEN sizes[2] * n ELSE (sizes[1] - 1) * n,
             h3 |-> mean_size + 1 * n,
             body |-> mean_size]
       ELSE [h1 |-> mean_size + 4 * n, h2 |-> mean_size + 2 * n,
             h3 |-> mean_size + 1 * n, body |-> mean_size]

(***************************************************************************)
(* p_FinalPDFOutlineExtractor: heading candidates                          *)
(***************************************************************************)
\* size < mean_size - 1 is size * n < sum - n
could_be_heading(text, size, size_stats) ==
    IF Len(text) < 3 \/ Len(text) > 200 THEN FALSE
    ELSE IF size * size_stats.n < size_stats.sum - size_stats.n THEN FALSE
    ELSE IF tests[text].is_obviously_body_text THEN FALSE
    ELSE TRUE

\* the confidence, in half points
calculate_confidence_advanced(item, thresholds, size_stats) ==
    LET text == item.text
        size == item.size * size_stats.n
    IN (IF size >= thresholds.h1 THEN 7
        ELSE IF size >= thresholds.h2 THEN 5
        ELSE IF size >= thresholds.h3 THEN 3
        ELSE IF size > size_stats.sum THEN 2
        ELSE 0)
       + (IF item.is_bold THEN 2 ELSE 0)
       + (IF tests[text].matches_heading_pattern THEN 4 ELSE 0)
       + (IF tests[text].ends_colon THEN 2 ELSE 0)
       + (IF tests[text].isupper /\ 5 < Len(text) /\ Len(text) < 50 THEN 2 ELSE 0)
       + (IF item.y < 100 THEN 1 ELSE 0)
       + (IF 5 <= Len(text) /\ Len(text) <= 80 THEN 1
          ELSE IF Len(text) > 150 THEN -3
          ELSE 0)

\* determine_level_advanced with the level of body content as its default
determine_level_advanced_content(item, thresholds, size_stats) ==
    LET text == item.text
        size == item.size * size_stats.n
        level == IF size >= thresholds.h1 THEN "H1"
                 ELSE IF size >= thresholds.h2 THEN "H2"
                 ELSE IF size >= thresholds.h3 THEN "H3"
                 ELSE "CONTENT"
    IN IF tests[text].appendix_letter THEN "H2"
       ELSE IF text \in {"Summary", "Background", "Introduction", "Conclusion"}
            THEN "H2"
       ELSE IF tests[text].for_each_colon THEN "H4"
       ELSE IF tests[text].sub_subsection THEN "H3"
       ELSE IF tests[text].phase_roman THEN "H2"
       ELSE level

determine_level_advanced(item, thresholds, size_stats) ==
    LET text == item.text
        size == item.size * size_stats.n
        level == IF size >= thresholds.h1 THEN "H1"
                 ELSE IF size >= thresholds.h2 THEN "H2"
                 ELSE IF size >= thresholds.h3 THEN "H3"
                 ELSE "H3"
    IN IF tests[text].appendix_letter THEN "H2"
       ELSE IF text \in {"Summary", "Background", "Introduction", "Conclusion"}
            THEN "H2"
       ELSE IF tests[text].for_each_colon THEN "H4"
       ELSE IF tests[text].sub_subsection THEN "H3"
       ELSE IF tests[text].phase_roman THEN "H2"
       ELSE level

(***************************************************************************)
(* p_FinalPDFOutlineExtractor: outline assembly and classification         *)
(* A heading carries src, the index of its item (a ghost field, dropped    *)
(* from the outline and kept beside it).                                   *)
(***************************************************************************)
OutlineCap == 50

\* key=lambda x: (x['page'], x['y'])
pfinal_sort_less(a, b) ==
    \/ a.page < b.page
    \/ a.page = b.page /\ a.y < b.y

near_duplicate(text_normalized, seen_texts) ==
    \E seen_text \in seen_texts :
        /\ Contains(seen_text, text_normalized) \/ Contains(text_normalized, seen_text)
        /\ Len(text_normalized) > 10

\* the heading is dropped: an exact duplicate, or a near duplicate
is_duplicate(text_normalized, seen_texts) ==
    \/ text_normalized \in seen_texts
    \/ near_duplicate(text_normalized, seen_texts)

RECURSIVE filter_headings(_, _, _)
filter_headings(headings, seen_texts, filtered_headings) ==
    IF headings = <<>> THEN filtered_headings
    ELSE LET heading == Head(headings)
             text_normalized == tests[heading.text].normalize
         IN IF is_duplicate(text_normalized, seen_texts)
            THEN filter_headings(Tail(headings), seen_texts, filtered_headings)
            ELSE filter_headings(Tail(headings),
                                 seen_texts \cup {text_normalized},
                                 Append(filtered_headings,
                                        [level |-> heading.level,
                                         text |-> heading.text,
                                         page |-> heading.page,
                                         src |-> heading.src]))

post_process_headings_advanced(headings) ==
    IF headings = <<>> THEN <<>>
    ELSE Prefix(filter_headings(SortBy(headings, pfinal_sort_less), {}, <<>>),
                OutlineCap)

ConfidenceMin == 4

\* could_be_heading(...) and confidence > 2.0
pfinal_admit(item, thresholds, size_stats) ==
    /\ could_be_heading(strip(item.text), item.size, size_stats)
    /\ calculate_confidence_advanced(item, thresholds, size_stats) > ConfidenceMin

RECURSIVE pfinal_potential_headings(_, _, _, _)
pfinal_potential_headings(text_items, thresholds, size_stats, i) ==
    IF i > Len(text_items) THEN <<>>
    ELSE LET item == text_items[i]
             rest == pfinal_potential_headings(text_items, thresholds, size_stats, i + 1)
         IN IF pfinal_admit(item, thresholds, size_stats)
            THEN <<[level |-> determine_level_advanced(item, thresholds, size_stats),
                    text |-> strip(item.text),
                    page |-> item.page,
                    size |-> item.size,
                    confidence |->
                        calculate_confidence_advanced(item, thresholds, size_stats),
                    y |-> item.y,
                    src |-> i]>> \o rest
            ELSE rest

\* returns the headings, each with its ghost src
classify_headings_advanced(text_items) ==
    IF text_items = <<>> THEN <<>>
    ELSE LET size_stats == pfinal_size_stats(text_items)
         IN IF size_stats.n = 0 THEN <<>>
            ELSE LET thresholds == calculate_heading_thresholds(size_stats)
                 IN post_process_headings_advanced(
                        pfinal_potential_headings(text_items, thresholds, size_stats, 1))

\* extract_outline, on the items that extract_text_with_layout returned.
\* items is the list handed to the title and heading steps (clean_items),
\* to which the ghost src indices refer.
p_Final_extract_outline(text_items) ==
    LET cleaned == clean_and_filter_text(text_items)
        clean_items == cleaned.cleaned_items
        title == detect_title_advanced(clean_items)
        headings == classify_headings_advanced(clean_items)
    IN [title |-> title,
        outline |-> [k \in 1..Len(headings) |->
                        [level |-> headings[k].level,
                         text |-> headings[k].text,
                         page |-> headings[k].page]],
        src |-> [k \in 1..Len(headings) |-> headings[k].src],
        items |-> clean_items,
        text_items_after |-> cleaned.text_items_after]

(***************************************************************************)
(* The documents.  A file is read page by page and line by line            *)
(* (extract_text_blocks, extract_text_with_layout): every line appends one *)
(* fragment carrying the page number, its position and its font.  A line   *)
(* is body text or one of the texts of the document's vocabulary, in one   *)
(* of the styles; lines follow each other down the page.                   *)
(***************************************************************************)
MaxBlocks == 16
MaxLines == 2
MaxPage == 2
BodyRun == 7
MaxFiles == 3
YTop == 72
YStep == 36
XLeft == 72

BodySize == 12

PlainStyle == [size |-> BodySize, is_bold |-> FALSE]

BoldStyle == [size |-> 16, is_bold |-> TRUE]

Styles == {PlainStyle, BoldStyle}

VARIABLES
    vocabulary,  \* the texts the lines of this document are drawn from
    blocks,      \* the fragments read so far
    page,        \* the page being read (page_num + 1)
    lines,       \* how many of the fragments are vocabulary lines
    pc,          \* "reading", then "enhanced" or "pfinal": which extractor ran
    doc_type,    \* the type detect_document_type returned ("" before)
    scored,      \* how many blocks the Enhanced heading scorer was called on
    result,      \* the extractor's result: title, outline, ghost src
    items,       \* the fragments the heading step classified (src refers to them)
    after,       \* the fragments handed to the pipeline, once it has returned
    candidates,  \* the fragments the scorer admitted (indices into items)
    profile,     \* the size statistics and thresholds p_final computed
    driver,      \* the batch driver running: "none", "enhanced" or "pfinal"
    input,       \* the PDF files of the input directory, in listing order
    cursor,      \* the file the driver's loop is at
    outputs,     \* the JSON files written: the file's index and the result
    halted       \* the driver was left by an uncaught exception

doc_vars ==
    <<vocabulary, blocks, page, lines, pc, doc_type, scored, result, items, after,
      candidates, profile>>

batch_vars == <<driver, input, cursor, outputs, halted>>

vars == <<tests, doc_vars, batch_vars>>

NoResult == [title |-> "", outline |-> <<>>, src |-> <<>>]

\* no font size was read: classify_headings_advanced returns before the
\* thresholds
NoProfile ==
    [size_stats |-> [sum |-> 0, n |-> 0, sizes |-> <<>>],
     thresholds |-> [h1 |-> 0, h2 |-> 0, h3 |-> 0, body |-> 0]]

\* the indices of the potential headings, in the order they were appended
sources(potential_headings) ==
    [k \in 1..Len(potential_headings) |-> potential_headings[k].src]

on_page(bs, p) == Len(SelectSeq(bs, LAMBDA b : b.page = p))

fragment(text, style, p, k) ==
    [text |-> text, page |-> p, x |-> XLeft, y |-> YTop + YStep * k,
     size |-> style.size, is_bold |-> style.is_bold]

\* extract_outline with an extractor that remembers, on the instance, the
\* texts it has seen, and never takes them for headings again
extractor_after_remembering(self, text_blocks) ==
    [t \in DOMAIN self |->
        IF \E i \in 1..Len(text_blocks) : strip(text_blocks[i].text) = t
        THEN [self[t] EXCEPT !.never_heading = TRUE]
        ELSE self[t]]

\* what extract_outline leaves on the extractor instance: it assigns to no
\* attribute of self
extractor_after(self, text_blocks) == self

Init ==
    /\ vocabulary \in Vocabularies
    /\ tests = TestsFor(vocabulary \cup {BodyText})
    /\ blocks = <<>>
    /\ page = 1
    /\ lines = 0
    /\ pc = "reading"
    /\ doc_type = ""
    /\ scored = 0
    /\ result = NoResult
    /\ items = <<>>
    /\ after = <<>>
    /\ candidates = <<>>
    /\ profile = NoProfile
    /\ driver = "none"
    /\ input = <<>>
    /\ cursor = 1
    /\ outputs = <<>>
    /\ halted = FALSE

\* one line of the vocabulary is read
ReadLine ==
    /\ pc = "reading"
    /\ Len(blocks) < MaxBlocks
    /\ lines < MaxLines
    /\ \E text \in vocabulary, style \in Styles :
           blocks' = Append(blocks, fragment(text, style, page, on_page(blocks, page)))
    /\ lines' = lines + 1
    /\ UNCHANGED <<tests, vocabulary, page, pc, doc_type, scored, result, items, after,
                   candidates, profile>>
    /\ UNCHANGED batch_vars

\* a paragraph of body text is read, line by line
ReadBody ==
    /\ pc = "reading"
    /\ Len(blocks) + BodyRun <= MaxBlocks
    /\ blocks' = blocks \o
           [k \in 1..BodyRun |->
               fragment(BodyText, PlainStyle, page, on_page(blocks, page) + k - 1)]
    /\ UNCHANGED <<tests, vocabulary, page, lines, pc, doc_type, scored, result, items, after,
                   candidates, profile>>
    /\ UNCHANGED batch_vars

\* the page loop moves on
NextPage ==
    /\ pc = "reading"
    /\ page < MaxPage
    /\ on_page(blocks, page) > 0
    /\ page' = page + 1
    /\ UNCHANGED <<tests, vocabulary, blocks, lines, pc, doc_type, scored, result, items, after,
                   candidates, profile>>
    /\ UNCHANGED batch_vars

\* EnhancedPDFOutlineExtractor.extract_outline on the file read
EnhancedExtract ==
    /\ pc = "reading"
    /\ pc' = "enhanced"
    /\ result' = Enhanced_extract_outline(blocks)
    /\ doc_type' = IF blocks = <<>> THEN "" ELSE detect_document_type(blocks)
    /\ scored' = IF blocks # <<>> /\ should_extract_headings(detect_document_type(blocks), blocks)
                 THEN Len(blocks) ELSE 0
    /\ items' = blocks
    /\ after' = blocks
    /\ candidates' =
           IF blocks # <<>> /\ should_extract_headings(detect_document_type(blocks), blocks)
           THEN sources(enhanced_potential_headings(
                            blocks, detect_document_type(blocks), 1))
           ELSE <<>>
    /\ tests' = extractor_after(tests, blocks)
    /\ UNCHANGED <<vocabulary, blocks, page, lines, profile>>
    /\ UNCHANGED batch_vars

\* the size_stats and thresholds of classify_headings_advanced
classify_profile(text_items) ==
    IF text_items = <<>> \/ pfinal_size_stats(text_items).n = 0 THEN NoProfile
    ELSE [size_stats |-> pfinal_size_stats(text_items),
          thresholds |-> calculate_heading_thresholds(pfinal_size_stats(text_items))]

\* p_FinalPDFOutlineExtractor.extract_outline on the file read
PFinalExtract ==
    /\ pc = "reading"
    /\ pc' = "pfinal"
    /\ LET r == p_Final_extract_outline(blocks)
       IN /\ result' = [title |-> r.title, outline |-> r.outline, src |-> r.src]
          /\ items' = r.items
          /\ after' = r.text_items_after
          /\ profile' = classify_profile(r.items)
          /\ candidates' =
                 IF classify_profile(r.items) = NoProfile THEN <<>>
                 ELSE sources(pfinal_potential_headings(
                                  r.items, classify_profile(r.items).thresholds,
                                  classify_profile(r.items).size_stats, 1))
    /\ UNCHANGED <<tests, vocabulary, blocks, page, lines, doc_type, scored>>
    /\ UNCHANGED batch_vars

Next == ReadLine \/ ReadBody \/ NextPage \/ EnhancedExtract \/ PFinalExtract

Spec == Init /\ [][Next]_vars

(***************************************************************************)
(* The batch drivers: process_all_pdfs of Enhanced_pdf_extractor.py, and   *)
(* main with process_pdf_file of p_final_pdf_extractor.py.  The input      *)
(* directory lists up to MaxFiles PDF files; a file is a document of       *)
(* Files, or one that fitz.open cannot open.                               *)
(***************************************************************************)
\* a report: a numbered heading, two paragraphs, a numbered subheading
SampleReport ==
    <<fragment("1. Introduction", BoldStyle, 1, 0)>>
    \o [k \in 1..(2 * BodyRun) |-> fragment(BodyText, PlainStyle, 1, k)]
    \o <<fragment("2.1 Methods", BoldStyle, 1, 2 * BodyRun + 1)>>

\* a report with one paragraph and a section name
SampleNote ==
    <<fragment("Introduction", BoldStyle, 1, 0)>>
    \o [k \in 1..(2 * BodyRun) |-> fragment(BodyText, PlainStyle, 1, k)]

Files ==
    {[readable |-> TRUE, blocks |-> SampleReport],
     [readable |-> TRUE, blocks |-> SampleNote],
     [readable |-> TRUE, blocks |-> <<>>],
     [readable |-> FALSE, blocks |-> <<>>]}

\* empty_result of process_pdf_file
ProcessingFailed == [title |-> "Processing Failed", outline |-> <<>>]

\* the except branch of p_FinalPDFOutlineExtractor.extract_outline
ErrorProcessing == [title |-> "Error processing document", outline |-> <<>>]

BatchInit ==
    /\ tests = TestsFor(UNION {{f.blocks[i].text : i \in 1..Len(f.blocks)} : f \in Files})
    /\ vocabulary = {}
    /\ blocks = <<>>
    /\ page = 1
    /\ lines = 0
    /\ pc = "batch"
    /\ doc_type = ""
    /\ scored = 0
    /\ result = NoResult
    /\ items = <<>>
    /\ after = <<>>
    /\ candidates = <<>>
    /\ profile = NoProfile
    /\ driver \in {"enhanced", "pfinal"}
    /\ input \in UNION {[1..n -> Files] : n \in 0..MaxFiles}
    /\ cursor = 1
    /\ outputs = <<>>
    /\ halted = FALSE

\* process_all_pdfs, one iteration of its loop: extract_outline on the one
\* extractor of the batch and json.dump of the result; an exception (the file
\* cannot be opened) is caught and printed, and nothing is written
ProcessAllPdfs ==
    /\ driver = "enhanced"
    /\ ~halted
    /\ cursor <= Len(input)
    /\ LET file == input[cursor]
       IN IF file.readable
          THEN LET r == Enhanced_extract_outline(file.blocks)
               IN /\ outputs' = Append(outputs,
                                       [file |-> cursor,
                                        result |-> [title |-> r.title,
                                                    outline |-> r.outline]])
                  /\ tests' = extractor_after(tests, file.blocks)
          ELSE UNCHANGED <<outputs, tests>>
    /\ cursor' = cursor + 1
    /\ UNCHANGED <<driver, input, halted>>
    /\ UNCHANGED doc_vars

\* main, one iteration of its loop: process_pdf_file evaluates the name
\* FinalPDFOutlineExtractor, which the module does not define; the NameError
\* is raised before the try statement and leaves main
MainProcessPdfFile ==
    /\ driver = "pfinal"
    /\ ~halted
    /\ cursor <= Len(input)
    /\ halted' = TRUE
    /\ UNCHANGED <<driver, input, cursor, outputs, tests>>
    /\ UNCHANGED doc_vars

BatchNext == ProcessAllPdfs \/ MainProcessPdfFile

SpecBatch == BatchInit /\ [][BatchNext]_vars

\* the driver has returned, or was left by an exception
BatchOver == driver # "none" /\ (halted \/ cursor > Len(input))

(***************************************************************************)
(* Sample documents.  The reader has returned the fragments of one of the  *)
(* documents below (texts stripped and non-empty, pages from 1, lines      *)
(* following each other down the page), and one of the extractors runs on  *)
(* them.                                                                   *)
(***************************************************************************)
MaxFiller == 21
MaxSized == 5

SmallStyle == [size |-> 10, is_bold |-> FALSE]

Line(text, style, p) == [text |-> text, style |-> style, page |-> p]

Fillers(n, text, style, p) == [k \in 1..n |-> Line(text, style, p)]

\* the sequence with e put at position pos (at the end, when pos is beyond it)
InsertAt(seq, pos, e) ==
    IF pos > Len(seq) THEN Append(seq, e)
    ELSE SubSeq(seq, 1, pos - 1) \o <<e>> \o SubSeq(seq, pos, Len(seq))

\* the fragments of the lines: the k-th line of a page is at YTop + YStep * k
Layout(ls) ==
    [i \in 1..Len(ls) |->
        fragment(ls[i].text, ls[i].style, ls[i].page,
                 Cardinality({j \in 1..(i - 1) : ls[j].page = ls[i].page}))]

\* one numbered section among MaxFiller lines of small body text, on page 1
NumberedReports ==
    {InsertAt(Fillers(MaxFiller, BodyText, SmallStyle, 1), pos, Line(h, st, 1)) :
         pos \in 1..(MaxFiller + 1),
         h \in {"1. Introduction", "1. Version History"},
         st \in {SmallStyle, [size |-> 14, is_bold |-> FALSE]}}

\* eight short lines on page 1: the invitation's title, its RSVP and date
\* lines, five other lines
Invitations ==
    {InsertAt(
         InsertAt(
             InsertAt(Fillers(5, f, PlainStyle, 1), dp, Line("Date: June 1", PlainStyle, 1)),
             rp, Line("RSVP: 555-1234", PlainStyle, 1)),
         tp, Line("You're invited!", st, 1)) :
         f \in {"Bring a friend!", "Snacks provided"},
         dp \in {1, 6}, rp \in {1, 7}, tp \in 1..8, st \in Styles}

\* a line in the body's font size among two paragraphs of body text
UniformDocuments ==
    {InsertAt(Fillers(2 * BodyRun, BodyText, PlainStyle, 1), pos,
              Line(t, [size |-> BodySize, is_bold |-> b], 1)) :
         pos \in {1, BodyRun + 1, 2 * BodyRun + 1},
         t \in {"NOTES:", "2024 results:", "Quarterly results"},
         b \in BOOLEAN}

\* a paragraph on page 1, then two appendix lines on page 2, or on pages 2
\* and 5
AppendixDocuments ==
    {Fillers(BodyRun, BodyText, PlainStyle, 1)
         \o <<Line(t1, s1, 2), Line(t2, s2, q)>> :
         t1 \in {"Appendix A: Data", "Appendix"},
         t2 \in {"Appendix A: Data", "Appendix"},
         s1 \in Styles, s2 \in Styles, q \in {2, 5}}

\* a section name twice, in two spellings or one, around two paragraphs
SectionNameDocuments ==
    {<<Line(t1, PlainStyle, 1)>>
         \o Fillers(2 * BodyRun, BodyText, PlainStyle, 1)
         \o <<Line(t2, PlainStyle, q)>> :
         t1 \in {"Introduction", "INTRODUCTION"},
         t2 \in {"Introduction", "INTRODUCTION"},
         q \in {1, 2}}

KeywordLines ==
    {"Signature Application Form", "Invited Party Celebration Event",
     "Sale Discount Today", BodyText}

\* one to three short lines of type keywords
KeywordDocuments ==
    {[i \in 1..n |-> Line(ts[i], PlainStyle, 1)] :
         n \in 1..3, ts \in [1..3 -> KeywordLines]}

\* a report of numbered sections, 2 * BodyRun lines to the page
LongReports ==
    {[k \in 1..n |-> Line(SectionText(k), st, (k - 1) \div (2 * BodyRun) + 1)] :
         n \in (MaxSections - 3)..MaxSections, st \in Styles}

\* a contact label, alone or over two paragraphs
ContactDocuments ==
    {<<Line("Contact:", st, 1)>> \o Fillers(n, BodyText, PlainStyle, 1) :
         st \in Styles, n \in {0, 2 * BodyRun}}

FontSizes == {10, 12, 14, 16, 18}

\* every multiset of one to MaxSized font sizes, as lines of body text
SizedDocuments ==
    {[i \in 1..Len(sz) |-> Line(BodyText, [size |-> sz[i], is_bold |-> FALSE], 1)] :
         sz \in {s \in UNION {[1..n -> FontSizes] : n \in 1..MaxSized} :
                     \A i \in 1..(Len(s) - 1) : s[i] <= s[i + 1]}}

SampleDocuments ==
    NumberedReports \cup Invitations \cup UniformDocuments \cup AppendixDocuments
    \cup SectionNameDocuments \cup KeywordDocuments \cup LongReports
    \cup ContactDocuments \cup SizedDocuments

SampleInit ==
    /\ \E ls \in SampleDocuments :
           /\ blocks = Layout(ls)
           /\ vocabulary = {ls[i].text : i \in 1..Len(ls)}
           /\ tests = TestsFor({ls[i].text : i \in 1..Len(ls)})
           /\ page = ls[Len(ls)].page
           /\ lines = Len(ls)
    /\ pc = "reading"
    /\ doc_type = ""
    /\ scored = 0
    /\ result = NoResult
    /\ items = <<>>
    /\ after = <<>>
    /\ candidates = <<>>
    /\ profile = NoProfile
    /\ driver = "none"
    /\ input = <<>>
    /\ cursor = 1
    /\ outputs = <<>>
    /\ halted = FALSE

SampleNext == EnhancedExtract \/ PFinalExtract

SpecSample == SampleInit /\ [][SampleNext]_vars

(***************************************************************************)
(* Properties                                                              *)
(***************************************************************************)
Extracted == pc \in {"enhanced", "pfinal"}

\* C1: when the detected document type is form, invitation, flyer or
\* certificate, EnhancedPDFOutlineExtractor.extract_outline returns an empty
\* outline and the heading scorer is called on no block.
C1_VisualTypeYieldsNoOutline ==
    (pc = "enhanced" /\ doc_type \in {"form", "invitation", "flyer", "certificate"})
        => (result.outline = <<>> /\ scored = 0)

\* an invitation long enough for headings, with a numbered section in it
C1_Witness ==
    /\ pc = "enhanced"
    /\ doc_type = "invitation"
    /\ Len(blocks) >= MinBlocksForHeadings
    /\ has_numbered_sections(blocks)
    /\ result.outline = <<>>

\* C2: with fewer than 15 fragments the returned outline is empty, in the
\* Enhanced pipeline and in the p_final pipeline.
C2_FewFragmentsYieldNoOutline ==
    (Extracted /\ Len(blocks) < MinBlocksForHeadings) => result.outline = <<>>

\* C3: the title returned by extract_title_enhanced (all its strategies) and
\* by detect_title_advanced is never the empty string.
C3_TitleNeverEmpty == Extracted => result.title # ""

\* p_final found no title candidate among the fragments and fell back
C3_Witness == pc = "pfinal" /\ blocks # <<>> /\ result.title = "Document"

\* C4: no two entries of a returned outline have the same text once
\* lower-cased, stripped and with whitespace runs collapsed.
C4_NoRepeatedNormalizedText ==
    \A i, j \in 1..Len(result.outline) :
        i # j => tests[result.outline[i].text].normalize
                     # tests[result.outline[j].text].normalize

\* C5: the entries of a returned outline are in ascending (page, y) order of
\* their fragments, fragments at the same place keeping their reading order.
C5_OutlineInPageOrder ==
    \A i, j \in 1..Len(result.src) :
        i < j => LET a == items[result.src[i]]
                     b == items[result.src[j]]
                 IN \/ a.page < b.page
                    \/ /\ a.page = b.page
                       /\ \/ a.y < b.y
                          \/ a.y = b.y /\ result.src[i] < result.src[j]

\* C6: every entry of a returned outline has a level among H1, H2, H3, H4
\* (never CONTENT) and a page number of at least 1.
C6_LevelsAndPagesInRange ==
    \A k \in 1..Len(result.outline) :
        /\ result.outline[k].level \in {"H1", "H2", "H3", "H4"}
        /\ result.outline[k].page >= 1

\* p_final returned a heading whose level is the default of the size test
C6_Witness ==
    /\ pc = "pfinal"
    /\ \E k \in 1..Len(result.outline) :
           /\ result.outline[k].level = "H3"
           /\ ~tests[result.outline[k].text].sub_subsection

\* C7: for a document of zero fragments every extract_outline returns the
\* title "Empty Document" and an empty outline.
C7_EmptyInputFixedResult ==
    (Extracted /\ blocks = <<>>)
        => (result.title = "Empty Document" /\ result.outline = <<>>)

\* C8: when the batch driver is over it has written one record per input
\* file, in order, the record of a file that failed being a fixed placeholder,
\* and no exception has left the driver.
C8_OneRecordPerDocument ==
    BatchOver =>
        /\ ~halted
        /\ Len(outputs) = Len(input)
        /\ \A i \in 1..Len(outputs) :
               /\ outputs[i].file = i
               /\ ~input[i].readable
                      => outputs[i].result \in {ProcessingFailed, ErrorProcessing}

C10_FragmentsNotMutated == Extracted => after = blocks

\* the fragments a numbered-section or special-section pattern matches
numbered_fragments(bs) == {i \in 1..Len(bs) : tests[bs[i].text].h1_definite}

patterned_fragments(bs) ==
    {i \in 1..Len(bs) : \/ tests[bs[i].text].h1_definite
                        \/ tests[bs[i].text].h2_definite
                        \/ tests[bs[i].text].h1_special}

\* the text holds an entry of never_headings, or one of the runs '___',
\* '---', '...'
denylisted(text) == tests[text].never_heading \/ tests[text].placeholder_run

\* Scenario A: a document of at least 20 fragments, all on page 1, exactly
\* one of them a numbered section ('<int>. <Capitalized phrase>'), not bold,
\* and no other fragment matching a numbered-section or special-section
\* pattern; the Enhanced extractor has run on it.
ScenarioA ==
    /\ pc = "enhanced"
    /\ Len(blocks) >= 20
    /\ \A i \in 1..Len(blocks) : blocks[i].page = 1
    /\ Cardinality(numbered_fragments(blocks)) = 1
    /\ patterned_fragments(blocks) = numbered_fragments(blocks)
    /\ \A i \in numbered_fragments(blocks) : ~blocks[i].is_bold

\* the outline is one entry: H1, with the numbered fragment's text, on page 1
OutlineIsTheNumberedFragment ==
    \E i \in numbered_fragments(blocks) :
        result.outline = <<[level |-> "H1", text |-> blocks[i].text, page |-> 1]>>

InvitationLines == {"You're invited!", "RSVP: 555-1234", "Date: June 1"}

\* Scenario B: eight short fragments on page 1, among them the three lines
\* of the invitation; the other fragments add no type keyword to the two
\* form keywords (rsvp:, date:) and the two invitation keywords (invited,
\* rsvp) of those lines; the Enhanced extractor has run on them.
ScenarioB ==
    /\ pc = "enhanced"
    /\ Len(blocks) = 8
    /\ \A i \in 1..Len(blocks) : blocks[i].page = 1
    /\ InvitationLines \subseteq {blocks[i].text : i \in 1..Len(blocks)}
    /\ SumSeq([i \in 1..Len(blocks) |-> Len(blocks[i].text)])
           < SparseMaxAvgLen * Len(blocks)
    /\ type_score("form", blocks) = 2
    /\ type_score("invitation", blocks) = 2
    /\ type_score("flyer", blocks) = 0
    /\ type_score("certificate", blocks) = 0

\* the fragments that are none of the three lines
remaining_fragments(bs) == {j \in 1..Len(bs) : bs[j].text \notin InvitationLines}

invited_fragments(bs) == {i \in 1..Len(bs) : bs[i].text = "You're invited!"}

InvitationRecognised ==
    /\ doc_type = "invitation"
    /\ result.outline = <<>>
    /\ result.title = "You're invited!"

\* C12 as stated: in Scenario B, when none of the remaining fragments scores
\* above 'You're invited!' in the visual title score, the document type is
\* invitation, the outline is empty and the title is 'You're invited!'.
C12_InvitationTitle ==
    (/\ ScenarioB
     /\ \E i \in invited_fragments(blocks) :
            \A j \in remaining_fragments(blocks) :
                visual_score(blocks[j]) <= visual_score(blocks[i]))
        => InvitationRecognised

\* C12, amended: in Scenario B, when none of the remaining fragments scores
\* above 'You're invited!' in the visual title score and none of those that
\* come before it scores as high as it, the document type is invitation, the
\* outline is empty and the title is 'You're invited!'.
C12_InvitationTitleFirstOfTheBest ==
    (/\ ScenarioB
     /\ \E i \in invited_fragments(blocks) :
            \A j \in remaining_fragments(blocks) :
                /\ visual_score(blocks[j]) <= visual_score(blocks[i])
                /\ j < i => visual_score(blocks[j]) < visual_score(blocks[i]))
        => InvitationRecognised

\* Scenario B with the RSVP line above the title and a later line scoring as
\* high as the title
C12_Witness ==
    /\ ScenarioB
    /\ InvitationRecognised
    /\ \E i \in invited_fragments(blocks) :
           /\ \E k \in 1..(i - 1) : blocks[k].text = "RSVP: 555-1234"
           /\ \A j \in remaining_fragments(blocks) :
                  /\ visual_score(blocks[j]) <= visual_score(blocks[i])
                  /\ j < i => visual_score(blocks[j]) < visual_score(blocks[i])
           /\ \E j \in remaining_fragments(blocks) :
                  j > i /\ visual_score(blocks[j]) = visual_score(blocks[i])

\* C13: for a document of at least 15 fragments that all have font size 12
\* and none of which matches a structural heading pattern, the outline is
\* empty, in the p_final pipeline and in the Enhanced pipeline.
C13_UniformFontYieldsNoOutline ==
    (/\ Extracted
     /\ Len(blocks) >= 15
     /\ \A i \in 1..Len(blocks) :
            /\ blocks[i].size = 12
            /\ ~tests[blocks[i].text].matches_heading_pattern
     /\ patterned_fragments(blocks) = {})
        => result.outline = <<>>

\* the accepted candidates whose normalized text is that of candidate a
same_text(a) ==
    {c \in Range(candidates) :
        tests[items[c].text].normalize = tests[items[a].text].normalize}

\* fragment a comes before fragment b in (page, vertical position, original
\* order)
earlier(a, b) ==
    \/ items[a].page < items[b].page
    \/ items[a].page = items[b].page /\ items[a].y < items[b].y
    \/ items[a].page = items[b].page /\ items[a].y = items[b].y /\ a < b

\* C14: when two accepted heading candidates have identical normalized text,
\* exactly one of the candidates with that text appears in the outline, and
\* it is the earliest in (page, vertical position, original order).
C14_EarlierOfEqualTextsSurvives ==
    Extracted =>
        \A a \in Range(candidates) :
            Cardinality(same_text(a)) >= 2 =>
                \E c \in same_text(a) :
                    /\ \A d \in same_text(a) \ {c} : earlier(c, d)
                    /\ same_text(a) \cap Range(result.src) = {c}

\* fewer than 20 fragments, of mean text length below 50
visually_sparse(bs) ==
    /\ Len(bs) < 20
    /\ SumSeq([i \in 1..Len(bs) |-> Len(bs[i].text)]) < 50 * Len(bs)

\* the types whose keyword count meets the minimum of the type
qualifying_types(bs) ==
    {t \in {"form", "invitation", "flyer"} :
        type_score(t, bs) >= (IF t = "form" THEN 3 ELSE 2)}

\* C15: for a visually sparse document detect_document_type returns the
\* highest-scoring type among those of form, invitation and flyer that meet
\* their minimum, and simple when none does; for any other document it
\* returns complex_document when there are more than 100 fragments and
\* standard_document otherwise.
C15_HighestScoringTypeWins ==
    (pc = "enhanced" /\ blocks # <<>>) =>
        IF visually_sparse(blocks)
        THEN IF qualifying_types(blocks) = {}
             THEN doc_type = "simple"
             ELSE /\ doc_type \in qualifying_types(blocks)
                  /\ \A t \in qualifying_types(blocks) :
                         type_score(doc_type, blocks) >= type_score(t, blocks)
        ELSE doc_type = IF Len(blocks) > 100 THEN "complex_document"
                        ELSE "standard_document"

\* C16: no heading returned by the p_final pipeline has level H1.
C16_PFinalNeverEmitsH1 ==
    pc = "pfinal" =>
        \A k \in 1..Len(result.outline) : result.outline[k].level # "H1"

\* candidate c repeats the kept entry d: the normalized texts are equal, or
\* one holds the other and the kept one is longer than 10 characters
repeats(c, d) ==
    LET text_normalized == tests[items[c].text].normalize
        seen_text == tests[items[d].text].normalize
    IN \/ text_normalized = seen_text
       \/ /\ Contains(seen_text, text_normalized) \/ Contains(text_normalized, seen_text)
          /\ Len(seen_text) > 10

\* C17: post_process_headings_advanced drops a candidate exactly when its
\* normalized text equals a previously kept entry, or is a substring of, or
\* contains, a previously kept entry whose normalized length exceeds 10
\* characters (outlines below the cap of 50 entries, where nothing else is
\* dropped).
C17_DroppedExactlyWhenRepeatingAKeptEntry ==
    (pc = "pfinal" /\ Len(result.src) < OutlineCap) =>
        \A c \in Range(candidates) :
            c \notin Range(result.src)
                <=> \E d \in Range(result.src) : earlier(d, c) /\ repeats(c, d)

\* C18: no returned outline has more than 50 entries, in the p_final
\* pipeline and in the Enhanced pipeline.
C18_AtMostFiftyEntries == Extracted => Len(result.outline) <= 50

\* C19: no outline entry contains a denylisted substring (an entry of
\* never_headings, or a run '___', '---', '...'), in the Enhanced pipeline
\* and in the p_final pipeline.
C19_NoDenylistedEntry ==
    Extracted =>
        \A k \in 1..Len(result.outline) : ~denylisted(result.outline[k].text)

\* p_final has computed the thresholds of a document with a font size in it
Profiled == pc = "pfinal" /\ profile.size_stats.n > 0

\* C20 as stated: the thresholds of calculate_heading_thresholds are
\* monotone, h1 >= h2 >= h3 >= body, in all three size-variety tiers.
C20_ThresholdsMonotone ==
    Profiled =>
        /\ profile.thresholds.h1 >= profile.thresholds.h2
        /\ profile.thresholds.h2 >= profile.thresholds.h3
        /\ profile.thresholds.h3 >= profile.thresholds.body

\* C20, amended: in all three tiers h1 >= h2 and h1 >= body; h2 >= h3 with
\* four or more distinct sizes and with one; h3 >= body with fewer than four
\* distinct sizes.  (With one distinct size that is h1 >= h2 >= h3 >= body.)
C20_ThresholdsMonotoneWithinTier ==
    Profiled =>
        /\ profile.thresholds.h1 >= profile.thresholds.h2
        /\ profile.thresholds.h1 >= profile.thresholds.body
        /\ Len(profile.size_stats.sizes) # 2 /\ Len(profile.size_stats.sizes) # 3
               => profile.thresholds.h2 >= profile.thresholds.h3
        /\ Len(profile.size_stats.sizes) < 4
               => profile.thresholds.h3 >= profile.thresholds.body

\* four distinct sizes whose mean lies above the third largest
C20_Witness ==
    /\ Profiled
    /\ Len(profile.size_stats.sizes) >= 4
    /\ profile.thresholds.h1 > profile.thresholds.h2
    /\ profile.thresholds.h2 > profile.thresholds.body
    /\ profile.thresholds.body > profile.thresholds.h3

==========================================================================
